---- MODULE Spec2Model ----
(***************************************************************************)
(* Live session orchestration of the mock-interview application.           *)
(*                                                                         *)
(* The repository holds two variants of the LiveInterview component:       *)
(*   "tools" : src/unnamed/part_003 (tool calls, isConnectedRef,           *)
(*             connectionError banner)                                     *)
(*   "basic" : src/components/LiveInterview.tsx                            *)
(* One component instance is modelled; `variant` fixes which file's code   *)
(* the instance runs.  Each is rendered by the App component that imports  *)
(* it: src/unnamed/part_009 renders the "tools" variant, src/App.tsx the   *)
(* "basic" one.  A run starts with the App in the INTERVIEW state, or on   *)
(* the home page with nobody logged in, and follows the App through the    *)
(* evaluation of the transcript.                                           *)
(*                                                                         *)
(* Granularity: one action is one browser task (an event handler plus the  *)
(* promise continuations it makes runnable).  A `.then` on the session     *)
(* promise runs inside the action that registers it when the promise is    *)
(* already resolved, and is queued in pendingThen while the connect is     *)
(* still in flight.  `await decodeAudioData` is a suspension point of the  *)
(* async onmessage handler: other tasks may run before it resumes.         *)
(***************************************************************************)
EXTENDS Integers, Sequences, FiniteSets, TLC

\* ---------------------------------------------------------------- bounds
MaxMsgs == 3      \* inbound messages delivered in one run
MaxClock == 2     \* last instant of the audio output clock
MaxFrames == 3    \* capture ticks (audio and image) that produce a frame
MaxSegs == 2      \* audio segments decoded in one run
MaxEnds == 2      \* clicks on the end-interview button
MaxRuns == 1      \* code runs that return an output
MaxImages == 1    \* image frames produced in a run that changes the view

\* ------------------------------------------------------------ input sets
Variants == {"tools", "basic"}
Durations == {1, 2}                       \* audioBuffer.duration of a segment
Deltas == {<< >>, <<"Hi">>, <<" there">>}  \* transcription text, as tokens
ToolNames == {"assignCodingTask", "otherTool"}
Levels == {1}                             \* RMS level of one capture buffer

NoTask == [title |-> "", description |-> ""]   \* stands for currentTask = null

\* The editor text: which revision it is and how many lines it has.  The
\* session starts with the boilerplate of the first language.
Boilerplate == [rev |-> 0, lines |-> 5]
Codes == {Boilerplate, [rev |-> 1, lines |-> 18]}

VARIABLES
  variant,          \* which component file runs
  traffic,          \* what the environment does in this run
  pc,               \* position of initializeSession
  isMounted,        \* the effect's isMounted flag
  chan,             \* the websocket: none/connecting/open/closing/closed/error
  promise,          \* sessionPromise: none/pending/resolved/rejected
  pendingThen,      \* continuations registered on the pending sessionPromise
  isConnectedRef,   \* isConnectedRef.current (tools variant)
  isConnecting,     \* useState isConnecting
  connectionError,  \* useState connectionError ("" is null)
  isMicOn,          \* useState isMicOn
  isMicOnRef,       \* isMicOnRef.current
  isVideoOn,        \* useState isVideoOn; isVideoOnRef.current follows it
  code,             \* useState code: the editor text; codeRef.current follows it
  volume,           \* useState volume
  activeTab,        \* useState activeTab; activeTabRef.current follows it
  rightPanelTab,    \* useState rightPanelTab
  currentTask,      \* useState currentTask (NoTask is null)
  chatHistory,      \* useState chatHistory
  transcriptRef,    \* transcriptRef.current, as a sequence of characters
  audioContextRef,  \* output AudioContext: null/running/closed
  currentTime,      \* audioContextRef.current.currentTime
  nextStartTimeRef, \* nextStartTimeRef.current
  segs,             \* every AudioBufferSourceNode started, in start order
  sourcesRef,       \* sourcesRef.current, as indices into segs
  decodeQ,          \* onmessage handlers suspended at await decodeAudioData
  capture,          \* processor connected and frame timer running
  sent,             \* calls made on the session object, in order
  calls,            \* function calls delivered by the remote peer, by id
  msgs,             \* number of inbound messages delivered
  frames,           \* number of capture ticks that produced a frame
  lastTick,         \* the capture tick that ran last: what it found and sent
  micToggled,       \* the microphone was toggled since the last audio tick
  interrupts,       \* interruption-signals handled, with their instants
  lastMsg,          \* the inbound message delivered last
  env,              \* the page: ok / noKey (no API_KEY) / insecure (not a secure context)
  mediaErr,         \* name of the error getUserMedia rejected with ("" is none)
  alertMsg,         \* text of the last window.alert ("" is none)
  tracks,           \* the tracks of the media stream: none/live/stopped
  isCompiling,      \* useState isCompiling: a code run is in flight
  compilerOutput,   \* useState compilerOutput: the text shown in the console panel
  appState,         \* useState appState of the App component
  generationError,  \* useState generationError of the App component ("" is null)
  report,           \* useState report of the App component (<< >> is null)
  evals,            \* evaluation requests started by generateReport
  evalResult,       \* outcome of the evaluation request (NoResult: not back yet)
  handed,           \* transcripts passed to onEndInterview, with the entries then
  teardown,         \* the steps of the session end, in the order they ran
  prior,            \* the session of the previous run of the effect (NoPrior: none)
  currentUser,      \* useState currentUser of the AuthProvider ("none" is null)
  isLoginModalOpen  \* useState isLoginModalOpen of the App component

sessionVars == <<variant, traffic, pc, isMounted, chan, promise, pendingThen, isConnectedRef,
                 isConnecting, connectionError, capture>>
uiVars == <<isMicOn, isMicOnRef, isVideoOn, code, volume, activeTab, rightPanelTab,
           currentTask>>
textVars == <<chatHistory, transcriptRef>>
audioVars == <<audioContextRef, currentTime, nextStartTimeRef, segs, sourcesRef,
               decodeQ, interrupts>>
logVars == <<sent, calls, msgs, frames, lastTick, micToggled, lastMsg>>
setupVars == <<env, mediaErr, alertMsg, tracks>>
authVars == <<currentUser, isLoginModalOpen>>
runVars == <<isCompiling, compilerOutput>>
appVars == <<appState, generationError, report, evals, evalResult, handed, teardown, prior, authVars>>
vars == <<sessionVars, uiVars, textVars, audioVars, logVars, setupVars, runVars, appVars>>

\* ---------------------------------------------------------------- helpers
Max(a, b) == IF a >= b THEN a ELSE b

\* `x || fallback` on a string argument of a function call
OrDefault(x, fallback) == IF x = "" THEN fallback ELSE x

FunctionCall(name, title, description) ==
  [name |-> name, title |-> title, description |-> description]

\* A LiveServerMessage: toolCall.functionCalls, serverContent.outputTranscription.text,
\* serverContent.inputTranscription.text, modelTurn.parts[0].inlineData (0: absent,
\* otherwise the duration of the audio it decodes to), serverContent.interrupted.
Message(fc, out, inp, audio, interrupted) ==
  [functionCalls |-> fc, outputText |-> out, inputText |-> inp,
   audio |-> audio, interrupted |-> interrupted]

\* Function-call lists of a tool-call message: one call, or two in one message.
CallLists ==
       {<<FunctionCall(n, a[1], a[2])>> :
          n \in ToolNames, a \in {<<"", "">>, <<"Reverse a List", "...">>}}
  \cup {<<FunctionCall(n, "Reverse a List", "..."), FunctionCall("assignCodingTask", "Two Sum", "...")>> :
          n \in ToolNames}

\* What the environment does in one run.  The families share no state beyond
\* the session itself, so one run exercises one of them together with the
\* session lifecycle:
\*   "capture" : capture ticks and microphone toggles
\*   "text"    : transcription messages (and a bare interruption-signal)
\*   "audio"   : audio messages, interruption-signals and the output clock,
\*               on a session that the user does not end (the channel may
\*               drop)
\*   "tool"    : tool-call messages (the tools variant declares the only tool)
\*   "code"    : runs of the candidate's code
\*   "decode"  : audio messages whose decode may fail, interruption-signals
\*               and the end notifications of the sources they stopped, at
\*               clock time 0; the user may end the session with audio in
\*               flight
\*   "report"  : the outcome of the evaluation request after the session end
\*   "video"   : image ticks, the camera toggle, the view tabs and the editor
\*   "auth"    : the way into the interview from the home page: navigation,
\*               login, logout and the setup form (src/unnamed/part_009; the
\*               App of src/App.tsx knows no user)
\* A run of the "auth" family starts on the home page with nobody logged in;
\* the other runs start where the setup form of a logged-in user has just
\* been submitted.
Traffic(v) ==
  {"capture", "text", "audio", "decode", "code", "report", "video"}
    \cup (IF v = "tools" THEN {"tool", "auth"} ELSE {})

TextMessages ==
       {Message(<< >>, o, << >>, 0, FALSE) : o \in Deltas}
  \cup {Message(<< >>, << >>, <<"Hi">>, 0, FALSE),
        Message(<< >>, <<"Hi">>, <<" there">>, 0, FALSE),
        Message(<< >>, << >>, << >>, 0, TRUE)}
AudioMessages ==
       {Message(<< >>, << >>, << >>, d, FALSE) : d \in Durations}
  \cup {Message(<< >>, << >>, << >>, 1, TRUE), Message(<< >>, << >>, << >>, 0, TRUE)}
ToolMessages == {Message(fc, << >>, << >>, 0, FALSE) : fc \in CallLists}

MessagesOf(t) ==
  CASE t = "text" -> TextMessages
    [] t \in {"audio", "decode"} -> AudioMessages
    [] t = "tool" -> ToolMessages
    [] OTHER -> {}

Messages == TextMessages \cup AudioMessages \cup ToolMessages

NoMessage == Message(<< >>, << >>, << >>, 0, FALSE)

\* The session of an earlier run of the effect: where its initializeSession
\* stands, its channel, and whether its cleanup queued a close on the pending
\* connect.  Its isMounted flag is false.
NoPrior == [pc |-> "none", chan |-> "none", closes |-> FALSE]

NoTick ==
  [kind |-> "none", mic |-> TRUE, open |-> FALSE, afterToggle |-> FALSE, emitted |-> 0,
   level |-> 0, mounted |-> TRUE]

\* What the hidden canvas holds: nothing, the camera picture, the constant
\* fill, or the editor text (revision and lines drawn) with or without inset.
NoImage == [view |-> "none", rev |-> 0, lines |-> 0, inset |-> FALSE]

InterruptionMarker == "\n[Interruption]\n"

\* ------------------------------------------------------ session promise
\* A continuation registered with sessionPromise.then: what it sends, whether
\* it re-reads isConnectedRef when it runs, and the channel state when it was
\* registered.
Then(kind, id, guarded) ==
  [kind |-> kind, id |-> id, guarded |-> guarded, regChan |-> chan, regMic |-> isMicOn,
   throws |-> FALSE, image |-> NoImage]

\* Mutant of TrySend: the catch block sends the response again, and that succeeds.
TrySendRetry(st, entry, throws) == [st EXCEPT !.sent = Append(st.sent, entry)]

\* try { session.sendToolResponse(...) } catch (e) { console.warn(...) }: a call
\* that throws hands nothing to the session, and the catch block only logs.
TrySend(st, entry, throws) ==
  IF throws THEN st ELSE [st EXCEPT !.sent = Append(st.sent, entry)]

\* One continuation run against <<sent, chan>> with isConnectedRef = conn.
RunThen(k, st, conn) ==
  IF k.kind = "close"
    THEN [st EXCEPT !.chan = IF st.chan = "open" THEN "closing" ELSE st.chan]
    ELSE IF k.guarded /\ ~conn
      THEN st
      ELSE TrySend(st,
              [kind |-> k.kind, id |-> k.id, chanAtSend |-> st.chan,
               chanAtReg |-> k.regChan, micAtReg |-> k.regMic, micAtSend |-> isMicOn,
               mountedAtSend |-> isMounted, image |-> k.image],
              k.throws)

RECURSIVE RunThens(_, _, _)
RunThens(q, st, conn) ==
  IF q = << >> THEN st ELSE RunThens(Tail(q), RunThen(Head(q), st, conn), conn)

\* Mutant of Register: a continuation registered on the pending promise runs
\* before the ones registered earlier.
RegisterFirst(k, p, conn) ==
  LET st == [sent |-> sent, chan |-> chan] IN
  IF p = "resolved"
    THEN [st |-> RunThen(k, st, conn), queue |-> pendingThen]
    ELSE IF p = "pending"
      THEN [st |-> st, queue |-> <<k>> \o pendingThen]
      ELSE [st |-> st, queue |-> pendingThen]

\* sessionPromise.then(k) registered now, with `p` the promise state and `conn`
\* the value of isConnectedRef the continuation will read: the new
\* <<sent, chan, pendingThen>>.
Register(k, p, conn) ==
  LET st == [sent |-> sent, chan |-> chan] IN
  IF p = "resolved"
    THEN [st |-> RunThen(k, st, conn), queue |-> pendingThen]
    ELSE IF p = "pending"
      THEN [st |-> st, queue |-> Append(pendingThen, k)]
      ELSE [st |-> st, queue |-> pendingThen]

\* ---------------------------------------------------------- transcript
\* Mutant of MergeDelta: every delta opens a new entry.
MergeDeltaAlwaysNew(prev, role, text) == Append(prev, [role |-> role, text |-> text])

\* Mutant of MergeDelta: a delta of the other role is put in front of the list.
MergeDeltaPrepend(prev, role, text) ==
  IF Len(prev) > 0 /\ prev[Len(prev)].role = role
    THEN [prev EXCEPT ![Len(prev)].text = @ \o text]
    ELSE <<[role |-> role, text |-> text]>> \o prev

\* setChatHistory(prev => ...) for one non-empty delta of `role`
MergeDelta(prev, role, text) ==
  IF Len(prev) > 0 /\ prev[Len(prev)].role = role
    THEN [prev EXCEPT ![Len(prev)].text = @ \o text]
    ELSE Append(prev, [role |-> role, text |-> text])

\* Mutant of AppendDelta: the delta is merged without the emptiness test.
AppendDeltaUnchecked(prev, role, text) == MergeDelta(prev, role, text)

\* `if (text) { ... }`: the empty string is falsy
AppendDelta(prev, role, text) ==
  IF text = << >> THEN prev ELSE MergeDelta(prev, role, text)

\* ------------------------------------------------------------ playback
\* The playback state one handler works on.
Playback ==
  [next |-> nextStartTimeRef, segs |-> segs, sources |-> sourcesRef,
   interrupts |-> interrupts, transcript |-> transcriptRef]

\* Mutant of StartTime: the segment starts at the clock time, whatever is queued.
StartTimeNow(now, next) == now

\* Mutant of StartTime: the segment starts at the queue's end, whatever the clock.
StartTimeQueued(now, next) == next

\* startTime = Math.max(currentTime, nextStartTimeRef.current)
StartTime(now, next) == Max(now, next)

\* source.start(startTime); nextStartTimeRef.current = startTime + duration;
\* sourcesRef.current.add(source)
Schedule(pb, duration) ==
  LET startTime == StartTime(currentTime, pb.next) IN
  [pb EXCEPT
     !.segs = Append(@, [start |-> startTime, duration |-> duration,
                         state |-> "scheduled", clockAt |-> currentTime,
                         nextAt |-> pb.next, epoch |-> Len(pb.interrupts),
                         mounted |-> isMounted]),
     !.next = startTime + duration,
     !.sources = @ \cup {Len(pb.segs) + 1}]

\* Mutant of InterruptReset: the reset stops at zero.
InterruptResetZero == 0

\* nextStartTimeRef.current = 0; if (audioContextRef.current) ... = currentTime
InterruptReset == IF audioContextRef # "null" THEN currentTime ELSE 0

\* Mutant of StopAll: the pending set is cleared without stopping its sources.
StopNone(ss, sources) == ss

\* sourcesRef.current.forEach(source => source.stop())
StopAll(ss, sources) ==
  [i \in DOMAIN ss |-> IF i \in sources THEN [ss[i] EXCEPT !.state = "stopped"] ELSE ss[i]]

\* if (message.serverContent?.interrupted) { ... }
Interrupted(pb) ==
  [pb EXCEPT
     !.transcript = Append(@, InterruptionMarker),
     !.segs = StopAll(@, pb.sources),
     !.sources = {},
     !.next = InterruptReset,
     !.interrupts = Append(@, currentTime)]

SetPlayback(pb) ==
  /\ nextStartTimeRef' = pb.next
  /\ segs' = pb.segs
  /\ sourcesRef' = pb.sources
  /\ interrupts' = pb.interrupts
  /\ transcriptRef' = pb.transcript

\* ------------------------------------------------------------------ Init
Start(families) ==
  /\ variant \in Variants
  /\ traffic \in families
  /\ pc = IF traffic = "auth" THEN "unmounted" ELSE "start"
  /\ isMounted = (traffic # "auth")
  /\ chan = "none"
  /\ promise = "none"
  /\ pendingThen = << >>
  /\ isConnectedRef = FALSE
  /\ isConnecting = TRUE
  /\ connectionError = ""
  /\ isMicOn = TRUE
  /\ isMicOnRef = TRUE
  /\ isVideoOn = TRUE
  /\ code = Boilerplate
  /\ volume = 0
  /\ activeTab = "video"
  /\ rightPanelTab = "video"
  /\ currentTask = NoTask
  /\ chatHistory = << >>
  /\ transcriptRef = << >>
  /\ audioContextRef = "null"
  /\ currentTime = 0
  /\ nextStartTimeRef = 0
  /\ segs = << >>
  /\ sourcesRef = {}
  /\ decodeQ = << >>
  /\ capture = FALSE
  /\ sent = << >>
  /\ calls = << >>
  /\ msgs = 0
  /\ interrupts = << >>
  /\ frames = 0
  /\ lastTick = NoTick
  /\ micToggled = FALSE
  /\ lastMsg = NoMessage
  /\ env \in {"ok", "noKey", "insecure"}
  /\ mediaErr = ""
  /\ alertMsg = ""
  /\ tracks = "none"
  /\ isCompiling = FALSE
  /\ compilerOutput = ""
  /\ appState = IF traffic = "auth" THEN "HOME" ELSE "INTERVIEW"
  /\ currentUser = IF traffic = "auth" THEN "none" ELSE "user"
  /\ isLoginModalOpen = FALSE
  /\ prior = NoPrior
  /\ generationError = ""
  /\ report = << >>
  /\ evals = 0
  /\ evalResult = [kind |-> "none", pre |-> << >>, obj |-> << >>, post |-> << >>]
  /\ handed = << >>
  /\ teardown = << >>

Init == Start(Traffic(variant))

\* --------------------------------------------------- initializeSession
\* The catch block of initializeSession (and of the media request): the banner
\* text in the tools variant; the basic variant raises an alert instead.
SetupErrorMessage(err) ==
  CASE err = "INSECURE_CONTEXT" -> "SECURE CONNECTION REQUIRED"
    [] err = "PERMISSION_DENIED" -> "PERMISSION DENIED"
    [] err = "NO_DEVICES" -> "HARDWARE MISSING"
    [] OTHER -> err

\* alert(...) in the catch block of the basic variant: one text for every cause
SetupAlert == "Failed to initialize Gemini Live session. Check API Key and Permissions."

\* What the catch block shows for a setup error
Shown(err) == IF variant = "tools" THEN SetupErrorMessage(err) ELSE SetupAlert

SetupFailed(err) ==
  /\ pc' = "failed"
  /\ isConnecting' = IF isMounted THEN FALSE ELSE isConnecting
  /\ connectionError' = IF variant = "tools" /\ isMounted
                          THEN Shown(err) ELSE connectionError
  /\ alertMsg' = IF variant = "basic" THEN Shown(err) ELSE alertMsg

\* initializeSession up to its first await: API key and secure-context checks,
\* creation of the two audio contexts.
InitStart ==
  /\ pc = "start"
  /\ IF env = "noKey"
       THEN SetupFailed("API Key is missing") /\ UNCHANGED audioContextRef
       ELSE IF env = "insecure" /\ variant = "tools"
         THEN SetupFailed("INSECURE_CONTEXT") /\ UNCHANGED audioContextRef
         ELSE /\ pc' = "awaitMedia"
              /\ audioContextRef' = "running"
              /\ UNCHANGED <<isConnecting, connectionError, alertMsg>>
  /\ UNCHANGED <<variant, traffic, isMounted, chan, promise, pendingThen, isConnectedRef, capture>>
  /\ UNCHANGED <<currentTime, nextStartTimeRef, segs, sourcesRef, decodeQ, interrupts>>
  /\ UNCHANGED <<uiVars, textVars, logVars, env, mediaErr, tracks, runVars, appVars>>

\* getUserMedia rejected: the error name is mapped to a setup error.
MediaError(name) ==
  CASE name \in {"NotAllowedError", "PermissionDeniedError"} -> "PERMISSION_DENIED"
    [] name = "NotFoundError" -> "NO_DEVICES"
    [] OTHER -> name

\* Outside a secure context navigator.mediaDevices is undefined: the basic
\* variant, which has no secure-context check, fails there with a TypeError.
MediaRejected(name) ==
  /\ pc = "awaitMedia"
  /\ (env = "insecure") <=> (name = "TypeError")
  /\ mediaErr' = name
  /\ SetupFailed(IF variant = "tools" THEN MediaError(name) ELSE name)
  /\ UNCHANGED <<variant, traffic, isMounted, chan, promise, pendingThen, isConnectedRef, capture>>
  /\ UNCHANGED <<uiVars, textVars, audioVars, logVars, env, tracks, runVars, appVars>>

\* getUserMedia resolved: streamRef.current = stream, `if (!isMounted) return`
\* (tools variant only), then ai.live.connect, the audio processor and the frame
\* timer.
MediaGranted ==
  /\ pc = "awaitMedia"
  /\ env = "ok"
  /\ pc' = "done"
  /\ tracks' = "live"
  /\ IF variant = "tools" /\ ~isMounted
       THEN UNCHANGED <<chan, promise, capture>>
       ELSE /\ chan' = "connecting"
            /\ promise' = "pending"
            /\ capture' = TRUE
  /\ UNCHANGED <<variant, traffic, isMounted, pendingThen, isConnectedRef, isConnecting,
                 connectionError>>
  /\ UNCHANGED <<uiVars, textVars, audioVars, logVars, env, mediaErr, alertMsg, runVars,
                 appVars>>

\* ------------------------------------------------- channel callbacks
\* onopen, then sessionPromise resolves and the continuations queued on it run.
OnOpen ==
  /\ chan = "connecting"
  /\ promise = "pending"
  /\ LET conn == IF variant = "tools" THEN TRUE ELSE isConnectedRef
         st == RunThens(pendingThen, [sent |-> sent, chan |-> "open"], conn)
     IN /\ isConnectedRef' = conn
        /\ sent' = st.sent
        /\ chan' = st.chan
  /\ promise' = "resolved"
  /\ pendingThen' = << >>
  /\ isConnecting' = IF isMounted THEN FALSE ELSE isConnecting
  /\ connectionError' = IF variant = "tools" /\ isMounted THEN "" ELSE connectionError
  /\ UNCHANGED <<variant, traffic, pc, isMounted, capture>>
  /\ UNCHANGED <<uiVars, textVars, audioVars, calls, msgs, frames, lastTick, micToggled, lastMsg>>
  /\ UNCHANGED <<setupVars, runVars, appVars>>

\* sessionPromise.catch: the connect attempt failed.
OnConnectFailed ==
  /\ chan = "connecting"
  /\ promise = "pending"
  /\ chan' = "error"
  /\ promise' = "rejected"
  /\ pendingThen' = << >>
  /\ isConnectedRef' = FALSE
  /\ isConnecting' = IF isMounted THEN FALSE ELSE isConnecting
  /\ connectionError' = IF variant = "tools" /\ isMounted
                          THEN "Connection Failed" ELSE connectionError
  /\ alertMsg' = IF variant = "basic" /\ isMounted
                   THEN "Failed to connect to AI Service" ELSE alertMsg
  /\ UNCHANGED <<variant, traffic, pc, isMounted, capture>>
  /\ UNCHANGED <<uiVars, textVars, audioVars, logVars, env, mediaErr, tracks, runVars, appVars>>

\* onerror.  The basic variant tests `isMounted && isConnecting` with the
\* isConnecting of the render that started the effect, which is true.
OnError ==
  /\ chan \in {"connecting", "open"}
  /\ chan' = "error"
  /\ isConnectedRef' = FALSE
  /\ isConnecting' = IF isMounted THEN FALSE ELSE isConnecting
  /\ connectionError' = IF variant = "tools" /\ isMounted
                          THEN "Connection Error" ELSE connectionError
  /\ alertMsg' = IF variant = "basic" /\ isMounted
                   THEN "A connection error occurred with the AI" ELSE alertMsg
  /\ UNCHANGED <<variant, traffic, pc, isMounted, promise, pendingThen, capture>>
  /\ UNCHANGED <<uiVars, textVars, audioVars, logVars, env, mediaErr, tracks, runVars, appVars>>

\* Mutant of BannerOnClose: the close handler removes the banner.
BannerCleared(banner) == ""

\* onclose leaves connectionError as it is.
BannerOnClose(banner) == banner

\* onclose: the peer closed the channel, the close requested by the cleanup
\* completed, or the socket closed after an error.
OnClose ==
  /\ chan \in {"open", "closing", "error"}
  /\ chan' = "closed"
  /\ isConnectedRef' = FALSE
  /\ connectionError' = BannerOnClose(connectionError)
  /\ UNCHANGED <<variant, traffic, pc, isMounted, promise, pendingThen, isConnecting,
                 capture>>
  /\ UNCHANGED <<uiVars, textVars, audioVars, logVars, setupVars, runVars, appVars>>

\* ------------------------------------------------------------ onmessage
\* Mutant of AssignCall: the name of the call is not compared.
AssignCallAnyName(m) ==
  IF variant = "tools" /\ Len(m.functionCalls) > 0
    THEN <<m.functionCalls[1]>> ELSE << >>

\* calls[0] of message.toolCall.functionCalls, when it is the assign-task tool
\* (tools variant): the call, else << >>.
AssignCall(m) ==
  IF variant = "tools" /\ Len(m.functionCalls) > 0
     /\ m.functionCalls[1].name = "assignCodingTask"
    THEN <<m.functionCalls[1]>> ELSE << >>

\* setCurrentTask({title: args.title || ..., description: args.description || ...})
TaskOf(call) ==
  [title |-> OrDefault(call.title, "Coding Task"),
   description |-> OrDefault(call.description, "Solve the problem.")]

\* `if (isConnectedRef.current && sessionPromiseRef.current)` before the
\* tool-response is registered on the session promise
MayAcknowledge == isConnectedRef /\ promise # "none"

\* The function calls of a message as the remote peer delivers them: each with
\* its own id, the channel state on arrival, whether the handler ran, whether
\* it is calls[0], and whether session.sendToolResponse throws for it.
Delivered(m, throws) ==
  [i \in 1..Len(m.functionCalls) |->
     [id |-> Len(calls) + i, name |-> m.functionCalls[i].name,
      title |-> m.functionCalls[i].title,
      description |-> m.functionCalls[i].description,
      open |-> chan = "open", handled |-> isMounted, first |-> i = 1,
      connected |-> MayAcknowledge, throws |-> throws]]

\* Mutant of Handles: the handler does not test isMounted.
HandlesAlways == TRUE

\* `if (!isMounted) return` on entry to onmessage
Handles == isMounted

\* The part of onmessage after the audio decode: schedule the segment (when the
\* message held audio), then handle serverContent.interrupted.
AfterDecode(pb, audio, interrupted) ==
  LET scheduled == IF audio > 0 THEN Schedule(pb, audio) ELSE pb
  IN IF interrupted THEN Interrupted(scheduled) ELSE scheduled

OnMessage(m, throws) ==
  /\ chan \in {"open", "closing"}
  /\ throws => (isMounted /\ AssignCall(m) # << >> /\ MayAcknowledge)
  /\ msgs < MaxMsgs
  /\ m \in MessagesOf(traffic)
  /\ m.audio > 0 => Len(segs) + Len(decodeQ) < MaxSegs
  /\ msgs' = msgs + 1
  /\ calls' = calls \o Delivered(m, throws)
  /\ lastMsg' = m
  /\ UNCHANGED <<variant, traffic, pc, isMounted, promise, isConnectedRef, isConnecting,
                 connectionError, capture>>
  /\ UNCHANGED <<isMicOn, isMicOnRef, isVideoOn, code, volume, audioContextRef, currentTime,
                 frames, lastTick, micToggled>>
  /\ UNCHANGED <<setupVars, runVars, appVars>>
  /\ IF ~Handles
       THEN UNCHANGED <<chan, pendingThen, sent, activeTab, rightPanelTab, currentTask,
                        chatHistory, transcriptRef, nextStartTimeRef, segs, sourcesRef,
                        decodeQ, interrupts>>
       ELSE
         LET assign == AssignCall(m)
             text == [Playback EXCEPT !.transcript = @ \o m.outputText \o m.inputText]
         IN
         \* tool call
         /\ IF assign # << >>
              THEN /\ currentTask' = TaskOf(assign[1])
                   /\ activeTab' = "code"
                   /\ rightPanelTab' = "task"
                   /\ IF MayAcknowledge
                        THEN LET k == Then("toolResponse", Len(calls) + 1, FALSE)
                                 r == Register([k EXCEPT !.throws = throws],
                                               promise, isConnectedRef)
                             IN /\ sent' = r.st.sent
                                /\ chan' = r.st.chan
                                /\ pendingThen' = r.queue
                        ELSE UNCHANGED <<sent, chan, pendingThen>>
              ELSE UNCHANGED <<currentTask, activeTab, rightPanelTab, sent, chan,
                               pendingThen>>
         \* transcription
         /\ chatHistory' = AppendDelta(AppendDelta(chatHistory, "ai", m.outputText),
                                       "user", m.inputText)
         \* audio: suspend at `await decodeAudioData`, or go on to the interruption
         /\ IF m.audio > 0 /\ audioContextRef # "null"
              THEN /\ decodeQ' = Append(decodeQ, [audio |-> m.audio,
                                                  interrupted |-> m.interrupted])
                   /\ transcriptRef' = text.transcript
                   /\ UNCHANGED <<nextStartTimeRef, segs, sourcesRef, interrupts>>
              ELSE /\ SetPlayback(AfterDecode(text, 0, m.interrupted))
                   /\ UNCHANGED decodeQ

\* decodeAudioData resolved: the suspended handler resumes.
DecodeDone(i) ==
  /\ i \in DOMAIN decodeQ
  /\ SetPlayback(AfterDecode(Playback, decodeQ[i].audio, decodeQ[i].interrupted))
  /\ decodeQ' = SubSeq(decodeQ, 1, i - 1) \o SubSeq(decodeQ, i + 1, Len(decodeQ))
  /\ UNCHANGED <<sessionVars, uiVars, chatHistory, audioContextRef, currentTime, logVars>>
  /\ UNCHANGED <<setupVars, runVars, appVars>>

\* decodeAudioData rejected (the chunk cannot be decoded): the await throws
\* inside the handler, which has no try block, so the handler ends there and
\* the statements after the await do not run.
DecodeFailed(i) ==
  /\ traffic = "decode"
  /\ i \in DOMAIN decodeQ
  /\ decodeQ' = SubSeq(decodeQ, 1, i - 1) \o SubSeq(decodeQ, i + 1, Len(decodeQ))
  /\ UNCHANGED <<sessionVars, uiVars, textVars, logVars, setupVars, runVars, appVars>>
  /\ UNCHANGED <<audioContextRef, currentTime, nextStartTimeRef, segs, sourcesRef, interrupts>>

\* -------------------------------------------------------- output clock
ClockTick ==
  /\ traffic = "audio"
  /\ audioContextRef = "running"
  /\ currentTime < MaxClock
  /\ currentTime' = currentTime + 1
  /\ UNCHANGED <<sessionVars, uiVars, textVars, logVars, setupVars, runVars, appVars>>
  /\ UNCHANGED <<audioContextRef, nextStartTimeRef, segs, sourcesRef, decodeQ, interrupts>>

\* Mutant of Delete: the end notification clears the whole set.
DeleteAll(sources, i) == {}

\* sourcesRef.current.delete(source)
Delete(sources, i) == sources \ {i}

\* source.onended: the segment played to its end, or it was stopped by an
\* interruption-signal and its end is notified afterwards.
OnEnded(i) ==
  /\ i \in DOMAIN segs
  /\ \/ /\ segs[i].state = "scheduled"
        /\ currentTime >= segs[i].start + segs[i].duration
     \/ /\ segs[i].state = "stopped"
        /\ traffic = "decode"
  /\ segs' = [segs EXCEPT ![i].state = "ended"]
  /\ sourcesRef' = Delete(sourcesRef, i)
  /\ UNCHANGED <<sessionVars, uiVars, textVars, logVars, setupVars, runVars, appVars>>
  /\ UNCHANGED <<audioContextRef, currentTime, nextStartTimeRef, decodeQ, interrupts>>

\* ------------------------------------------------------------- capture
\* index * lineHeight < height - padding, with lineHeight 20, height 360 and
\* padding 20: the lines of index 0 to 16 are drawn.
VisibleLines == 17

\* renderCodeToCanvas: the text of codeRef.current, cut at the canvas height.
RenderCode(text) ==
  [view |-> "code", rev |-> text.rev,
   lines |-> IF text.lines < VisibleLines THEN text.lines ELSE VisibleLines,
   inset |-> FALSE]

\* What one image tick draws before canvas.toDataURL: the editor text, with the
\* camera inset when isVideoOnRef is set, in code view; else the camera picture,
\* or the constant fill when the camera is off.  The refs are written by
\* effects that React runs within the task of the click or keystroke.
Canvas ==
  IF activeTab = "code"
    THEN [RenderCode(code) EXCEPT !.inset = isVideoOn]
    ELSE IF isVideoOn
      THEN [NoImage EXCEPT !.view = "camera"]
      ELSE [NoImage EXCEPT !.view = "placeholder"]

\* videoRef.current is not null: a <video ref={videoRef}> is rendered.  The
\* tools variant renders it in camera view, and in code view only on the "video"
\* side panel; the basic variant renders it in both views.
VideoElement ==
  /\ isMounted
  /\ variant = "tools" => (activeTab = "video" \/ rightPanelTab = "video")

\* Mutant of MayEmitAudio: the microphone flag is not read.
MayEmitAudioUnmuted == variant = "tools" => isConnectedRef

\* processor.onaudioprocess: `if (!isMicOnRef.current || !isConnectedRef.current)
\* return` (the basic variant reads isMicOnRef alone)
MayEmitAudio == isMicOnRef /\ (variant = "tools" => isConnectedRef)

\* The continuation of a capture tick: the tools variant re-reads isConnectedRef
\* before session.sendRealtimeInput, the basic variant does not.  The frame
\* carries its number in the order of production.
FrameThen(kind) ==
  [Then(kind, frames + 1, variant = "tools") EXCEPT
     !.image = IF kind = "image" THEN Canvas ELSE NoImage]

AudioTick(level) ==
  /\ traffic = "capture"
  /\ capture
  /\ MayEmitAudio => frames < MaxFrames
  /\ IF MayEmitAudio
       THEN LET r == Register(FrameThen("audio"), promise, isConnectedRef)
            IN /\ sent' = r.st.sent
               /\ chan' = r.st.chan
               /\ pendingThen' = r.queue
               /\ volume' = IF isMounted THEN level ELSE volume
               /\ frames' = frames + 1
       ELSE UNCHANGED <<sent, chan, pendingThen, volume, frames>>
  /\ UNCHANGED <<variant, traffic, pc, isMounted, promise, isConnectedRef, isConnecting,
                 connectionError, capture>>
  /\ UNCHANGED <<isMicOn, isMicOnRef, isVideoOn, code, activeTab, rightPanelTab, currentTask>>
  /\ UNCHANGED <<textVars, audioVars, calls, msgs, lastMsg, setupVars, runVars, appVars>>
  /\ lastTick' = [NoTick EXCEPT !.kind = "audio", !.mic = isMicOn, !.open = chan = "open",
                                !.afterToggle = micToggled,
                                !.emitted = Len(sent') - Len(sent),
                                !.level = level, !.mounted = isMounted]
  /\ micToggled' = FALSE

\* The frame timer: `if (!videoRef.current || !canvasRef.current ||
\* !isConnectedRef.current) return` (the basic variant has no isConnectedRef)
MayEmitImage == VideoElement /\ (variant = "tools" => isConnectedRef)

VideoTick ==
  /\ traffic \in {"capture", "video"}
  /\ capture
  /\ MayEmitImage => frames < (IF traffic = "video" THEN MaxImages ELSE MaxFrames)
  /\ IF MayEmitImage
       THEN LET r == Register(FrameThen("image"), promise, isConnectedRef)
            IN /\ sent' = r.st.sent
               /\ chan' = r.st.chan
               /\ pendingThen' = r.queue
               /\ frames' = frames + 1
       ELSE UNCHANGED <<sent, chan, pendingThen, frames>>
  /\ UNCHANGED <<variant, traffic, pc, isMounted, promise, isConnectedRef, isConnecting,
                 connectionError, capture>>
  /\ UNCHANGED <<uiVars, textVars, audioVars, calls, msgs, lastMsg, micToggled>>
  /\ UNCHANGED <<setupVars, runVars, appVars>>
  /\ lastTick' = [NoTick EXCEPT !.kind = "image", !.mic = isMicOn, !.open = chan = "open",
                                !.emitted = Len(sent') - Len(sent),
                                !.mounted = isMounted]

\* ------------------------------------------------------------ controls
\* Mutant of SyncRef: the ref receives the negated state.
SyncRefInverted(state) == ~state

\* useEffect(() => { isMicOnRef.current = isMicOn; }, [isMicOn])
SyncRef(state) == state

\* onClick={() => setIsMicOn(!isMicOn)}: React commits the update of a click
\* and flushes the effects it schedules before the task ends, so the ref is
\* synchronised within the click's task.
ToggleMic ==
  /\ traffic = "capture"
  /\ isMounted
  /\ isMicOn' = ~isMicOn
  /\ isMicOnRef' = SyncRef(isMicOn')
  /\ UNCHANGED <<isVideoOn, code, volume, activeTab, rightPanelTab, currentTask>>
  /\ micToggled' = TRUE
  /\ UNCHANGED <<sessionVars, textVars, audioVars, setupVars, runVars, appVars>>
  /\ UNCHANGED <<sent, calls, msgs, frames, lastTick, lastMsg>>

\* onClick={() => setIsVideoOn(!isVideoOn)}
ToggleVideo ==
  /\ traffic = "video"
  /\ isMounted
  /\ isVideoOn' = ~isVideoOn
  /\ UNCHANGED <<isMicOn, isMicOnRef, code, volume, activeTab, rightPanelTab, currentTask>>
  /\ UNCHANGED <<sessionVars, textVars, audioVars, logVars, setupVars, runVars, appVars>>

\* The view buttons of the header: onClick={() => setActiveTab(tab)}
SetActiveTab(tab) ==
  /\ traffic = "video"
  /\ isMounted
  /\ tab # activeTab
  /\ activeTab' = tab
  /\ UNCHANGED <<isMicOn, isMicOnRef, isVideoOn, code, volume, rightPanelTab, currentTask>>
  /\ UNCHANGED <<sessionVars, textVars, audioVars, logVars, setupVars, runVars, appVars>>

\* The tabs of the side panel in code view (tools variant):
\* onClick={() => setRightPanelTab(tab)}
SetRightPanelTab(tab) ==
  /\ traffic = "video"
  /\ isMounted
  /\ variant = "tools"
  /\ activeTab = "code"
  /\ tab # rightPanelTab
  /\ rightPanelTab' = tab
  /\ UNCHANGED <<isMicOn, isMicOnRef, isVideoOn, code, volume, activeTab, currentTask>>
  /\ UNCHANGED <<sessionVars, textVars, audioVars, logVars, setupVars, runVars, appVars>>

\* The editor of the code view: onChange={(e) => setCode(e.target.value)}
EditCode(text) ==
  /\ traffic = "video"
  /\ isMounted
  /\ activeTab = "code"
  /\ text # code
  /\ code' = text
  /\ UNCHANGED <<isMicOn, isMicOnRef, isVideoOn, volume, activeTab, rightPanelTab,
                 currentTask>>
  /\ UNCHANGED <<sessionVars, textVars, audioVars, logVars, setupVars, runVars, appVars>>

\* --------------------------------------------------------- session end
\* The effect's cleanup, which React runs when the component is unmounted.
\* Tools variant: isMounted and isConnectedRef cleared, the timer cleared,
\* cleanupSession (the close is registered on the session promise and runs
\* after the synchronous part), the processor disconnected, the contexts
\* closed, the tracks stopped.  Basic variant: no isConnectedRef, the close is
\* registered last.
TeardownSteps ==
     (IF variant = "tools" THEN <<"markClosed">> ELSE << >>)
  \o (IF capture THEN <<"stopTimer", "stopProcessor">> ELSE << >>)
  \o (IF audioContextRef = "running" THEN <<"closeSink">> ELSE << >>)
  \o (IF pc = "done" THEN <<"releaseDevices">> ELSE << >>)
  \o (IF promise = "resolved" THEN <<"closeStream">> ELSE << >>)

Teardown ==
  /\ isMounted' = FALSE
  /\ isConnectedRef' = FALSE
  /\ capture' = FALSE
  /\ audioContextRef' = IF audioContextRef = "null" THEN "null" ELSE "closed"
  /\ tracks' = IF tracks = "live" THEN "stopped" ELSE tracks
  /\ IF promise # "none"
       THEN LET r == Register(Then("close", 0, FALSE), promise, FALSE)
            IN /\ chan' = r.st.chan
               /\ sent' = r.st.sent
               /\ pendingThen' = r.queue
       ELSE UNCHANGED <<chan, sent, pendingThen>>
  /\ UNCHANGED <<variant, traffic, pc, promise, isConnecting, connectionError>>
  /\ UNCHANGED <<uiVars, textVars, calls, msgs, frames, lastTick, micToggled, lastMsg>>
  /\ UNCHANGED <<currentTime, nextStartTimeRef, segs, sourcesRef, decodeQ, interrupts>>
  /\ UNCHANGED <<env, mediaErr, alertMsg, runVars>>

\* The user leaves the interview through the navigation bar: the App component
\* stops rendering LiveInterview and the cleanup runs.
Cleanup ==
  /\ isMounted
  /\ traffic # "audio"
  /\ pc # "start"
  /\ appState' = "HOME"
  /\ teardown' = TeardownSteps
  /\ Teardown
  /\ UNCHANGED <<generationError, report, evals, evalResult, handed, authVars, prior>>

NoTranscript == "No transcript available."

\* Mutant of Handover: the fallback text is appended to every transcript.
HandoverWithFallback(text) == Append(text, NoTranscript)

\* Mutant of Handover: the accumulated string is passed as it is.
HandoverRaw(text) == text

\* transcriptRef.current || "No transcript available."
Handover(text) == IF text = << >> THEN <<NoTranscript>> ELSE text

\* The end-interview button: handleEndCall passes the transcript to
\* onEndInterview, which is generateReport of the App component.  generateReport
\* runs up to its first await inside the click: it returns at once without the
\* API key (src/App.tsx), or sets ANALYZING and then either throws on the
\* missing key (src/unnamed/part_009) or starts the evaluation request.  React
\* commits the new appState when the handler returns: LiveInterview is unmounted
\* and its cleanup runs.
HandleEndCall ==
  /\ isMounted
  /\ traffic # "audio"
  /\ pc # "start"
  /\ Len(handed) < MaxEnds
  /\ UNCHANGED <<authVars, prior>>
  /\ handed' = Append(handed, [text |-> Handover(transcriptRef), entries |-> chatHistory,
                               interruptions |-> Len(interrupts),
                               accumulated |-> transcriptRef])
  /\ IF variant = "basic" /\ env = "noKey"
       THEN /\ UNCHANGED <<sessionVars, uiVars, textVars, audioVars, logVars>>
            /\ UNCHANGED <<setupVars, runVars>>
            /\ UNCHANGED <<appState, generationError, report, evals, evalResult, teardown>>
       ELSE /\ appState' = "ANALYZING"
            /\ generationError' = IF env = "noKey" THEN "API Key is missing." ELSE ""
            /\ evals' = IF env = "noKey" THEN evals ELSE evals + 1
            /\ teardown' = <<"handover">> \o TeardownSteps
            /\ Teardown
            /\ UNCHANGED <<report, evalResult>>

\* ---------------------------------------------------------- evaluation
\* response.text is modelled as a sequence of tokens: "fence-json" and "fence"
\* (the Markdown fences ```json and ```), "n" (white space), "{" and "}", "k" (a member with a
\* scalar value; before an object, its key) and "w" (a word of prose).
IsSpace(x) == x = "n"
NotSpace(x) == x # "n"

RECURSIVE DropSpace(_)
DropSpace(t) == IF t # << >> /\ IsSpace(Head(t)) THEN DropSpace(Tail(t)) ELSE t

RECURSIVE DropSpaceEnd(_)
DropSpaceEnd(t) ==
  IF t # << >> /\ IsSpace(t[Len(t)]) THEN DropSpaceEnd(SubSeq(t, 1, Len(t) - 1)) ELSE t

\* .replace(/```json\s*/g, ''): every opening fence, with the white space after it
RECURSIVE StripOpenFences(_)
StripOpenFences(t) ==
  IF t = << >> THEN << >>
  ELSE IF Head(t) = "fence-json" THEN StripOpenFences(DropSpace(Tail(t)))
  ELSE <<Head(t)>> \o StripOpenFences(Tail(t))

\* .replace(/```\s*$/g, ''): a fence at the very end, with the white space after it
StripEndFence(t) ==
  LET u == DropSpaceEnd(t) IN
  IF u # << >> /\ u[Len(u)] = "fence" THEN SubSeq(u, 1, Len(u) - 1) ELSE t

\* indexOf('{') and lastIndexOf('}'), counted from 1; 0 stands for -1
FirstBrace(t) ==
  IF \E i \in DOMAIN t : t[i] = "{"
    THEN CHOOSE i \in DOMAIN t : t[i] = "{" /\ \A j \in 1..(i - 1) : t[j] # "{"
    ELSE 0

LastBrace(t) ==
  IF \E i \in DOMAIN t : t[i] = "}"
    THEN CHOOSE i \in DOMAIN t : t[i] = "}" /\ \A j \in (i + 1)..Len(t) : t[j] # "}"
    ELSE 0

\* jsonText.substring(firstBrace, lastBrace + 1): substring swaps its arguments
\* when the first is the greater.
Cut(t) ==
  LET f == FirstBrace(t)
      l == LastBrace(t)
  IN IF f # 0 /\ l # 0
       THEN IF f <= l + 1 THEN SubSeq(t, f, l) ELSE SubSeq(t, l + 1, f - 1)
       ELSE t

\* The cleaning of src/unnamed/part_009: the fences are removed, then the text
\* is cut from the first `{` to the last `}`.
Clean(text) == Cut(StripEndFence(StripOpenFences(text)))

\* The rest of a JSON object at nesting depth `depth`
RECURSIVE ObjectRest(_, _)
ObjectRest(t, depth) ==
  IF t = << >> THEN depth = 0
  ELSE IF depth = 0 THEN FALSE
  ELSE IF Head(t) = "{" THEN ObjectRest(Tail(t), depth + 1)
  ELSE IF Head(t) = "}" THEN ObjectRest(Tail(t), depth - 1)
  ELSE IF Head(t) \in {"k", "n"} THEN ObjectRest(Tail(t), depth)
  ELSE FALSE

\* JSON.parse(text) returns (does not throw): one object, white space around it
IsJson(text) ==
  LET t == DropSpace(DropSpaceEnd(text)) IN
  t # << >> /\ Head(t) = "{" /\ ObjectRest(Tail(t), 1)

\* The value JSON.parse returns: the object, white space aside
Parse(text) == SelectSeq(text, NotSpace)

\* The outcome of the evaluation request: the request was rejected, or it
\* resolved with a response whose text is `pre`, `obj` and `post` in a row.
Result(kind, pre, obj, post) == [kind |-> kind, pre |-> pre, obj |-> obj, post |-> post]

NoResult == Result("none", << >>, << >>, << >>)

Prefixes == {<< >>, <<"fence-json", "n">>, <<"w", "n">>, <<"w", "{", "w", "}", "n">>}
Objects == {<<"{", "k", "}">>, <<"{", "k", "{", "k", "}", "}">>}
Suffixes == {<< >>, <<"n", "fence", "n">>, <<"n", "w">>, <<"n", "w", "{", "}">>}

\* "object": one JSON object with text around it; "garbage": prose alone;
\* "empty": no text
EvalResults ==
       {Result("rejected", << >>, << >>, << >>), Result("empty", << >>, << >>, << >>),
        Result("garbage", <<"w", "w">>, << >>, << >>)}
  \cup {Result("object", pre, obj, post) :
          pre \in Prefixes, obj \in Objects, post \in Suffixes}

ResponseText(r) == r.pre \o r.obj \o r.post

\* generateReport is suspended at `await ai.models.generateContent`
EvalPending == evals > 0 /\ evalResult = NoResult

\* generateReport resumed after `await ai.models.generateContent`: the request
\* was rejected, or it resolved with a response text.  Nothing on the way reads
\* appState.
EvalDone(r) ==
  /\ traffic = "report"
  /\ EvalPending
  /\ evalResult' = r
  /\ IF variant = "tools"
       THEN LET jsonText == Clean(ResponseText(r)) IN
            /\ UNCHANGED alertMsg
            /\ IF r.kind = "rejected"
                 THEN /\ generationError' = "Failed to fetch"
                      /\ UNCHANGED <<report, appState>>
                 ELSE IF ResponseText(r) = << >>
                   THEN /\ generationError' = "The AI model returned an empty response."
                        /\ UNCHANGED <<report, appState>>
                   ELSE IF IsJson(jsonText)
                     THEN /\ report' = Parse(jsonText)
                          /\ appState' = "REPORT"
                          /\ UNCHANGED generationError
                     ELSE /\ generationError' = "Failed to parse the report data."
                          /\ UNCHANGED <<report, appState>>
       ELSE LET jsonText == IF ResponseText(r) = << >> THEN <<"{", "}">> ELSE ResponseText(r) IN
            /\ UNCHANGED generationError
            /\ IF r.kind # "rejected" /\ IsJson(jsonText)
                 THEN /\ report' = Parse(jsonText)
                      /\ appState' = "REPORT"
                      /\ UNCHANGED alertMsg
                 ELSE /\ alertMsg' = "Failed to generate report. Please try again."
                      /\ appState' = "SETUP"
                      /\ UNCHANGED report
  /\ UNCHANGED <<sessionVars, uiVars, textVars, audioVars, logVars, env, mediaErr, tracks, runVars>>
  /\ UNCHANGED <<evals, handed, teardown, prior, authVars>>

\* The "Return to Setup" button of the failure panel (src/unnamed/part_009)
ReturnToSetup ==
  /\ variant = "tools"
  /\ appState = "ANALYZING"
  /\ generationError # ""
  /\ appState' = "SETUP"
  /\ UNCHANGED <<sessionVars, uiVars, textVars, audioVars, logVars, setupVars, runVars>>
  /\ UNCHANGED <<generationError, report, evals, evalResult, handed, teardown, prior, authVars>>

\* ------------------------------------------------------ effect restart
\* useEffect(() => {...}, [profile]) runs again for the mounted component (the
\* profile prop changed, or React replays the effect): the cleanup of the
\* first run, then `let isMounted = true; ... isConnectedRef.current = false`
\* of the second.  Refs and state of the component outlive the run: the
\* second run uses the same isConnectedRef, isConnecting and connectionError.
\* One restart per run.
Restart ==
  /\ traffic = "restart"
  /\ isMounted
  /\ pc # "start"
  /\ prior = NoPrior
  /\ prior' = [pc |-> pc,
              chan |-> IF promise = "resolved" /\ chan = "open" THEN "closing" ELSE chan,
              closes |-> promise = "pending"]
  /\ pc' = "start"
  /\ chan' = "none"
  /\ promise' = "none"
  /\ pendingThen' = << >>
  /\ isConnectedRef' = FALSE
  /\ capture' = FALSE
  /\ audioContextRef' = IF audioContextRef = "null" THEN "null" ELSE "closed"
  /\ tracks' = IF tracks = "live" THEN "stopped" ELSE tracks
  /\ UNCHANGED <<variant, traffic, isMounted, isConnecting, connectionError>>
  /\ UNCHANGED <<uiVars, textVars, logVars, env, mediaErr, alertMsg, runVars>>
  /\ UNCHANGED <<appState, generationError, report, evals, evalResult, handed, teardown,
                 authVars>>
  /\ UNCHANGED <<currentTime, nextStartTimeRef, segs, sourcesRef, decodeQ, interrupts>>

\* What a callback of the first run leaves alone: its own isMounted is false,
\* so it sets no state.
PrevFrame ==
  /\ UNCHANGED <<variant, traffic, pc, isMounted, chan, promise, pendingThen, isConnecting,
                 connectionError, capture>>
  /\ UNCHANGED <<uiVars, textVars, audioVars, logVars, env, mediaErr, runVars>>
  /\ UNCHANGED <<appState, generationError, report, evals, evalResult, handed, teardown,
                 authVars>>

\* getUserMedia of the first run settles after the restart.  Granted: the
\* stream is stored; the tools variant returns at `if (!isMounted) return`, the
\* basic variant goes on to connect.  Rejected: the catch block (the basic
\* variant raises its alert).
PrevMediaSettled(granted) ==
  /\ prior.pc = "awaitMedia"
  /\ granted => env = "ok"
  /\ prior' = [prior EXCEPT !.pc = IF granted THEN "done" ELSE "failed",
                          !.chan = IF granted /\ variant = "basic" THEN "connecting" ELSE @]
  /\ tracks' = IF granted THEN "live" ELSE tracks
  /\ alertMsg' = IF ~granted /\ variant = "basic" THEN SetupAlert ELSE alertMsg
  /\ UNCHANGED isConnectedRef
  /\ PrevFrame

\* onopen of the first run's channel, then its queued close.
PrevOpen ==
  /\ prior.chan = "connecting"
  /\ prior' = [prior EXCEPT !.chan = IF prior.closes THEN "closing" ELSE "open"]
  /\ isConnectedRef' = IF variant = "tools" THEN TRUE ELSE isConnectedRef
  /\ UNCHANGED <<alertMsg, tracks>>
  /\ PrevFrame

\* sessionPromise.catch or onerror of the first run's channel.
PrevError ==
  /\ prior.chan \in {"connecting", "open"}
  /\ prior' = [prior EXCEPT !.chan = "error"]
  /\ isConnectedRef' = FALSE
  /\ UNCHANGED <<alertMsg, tracks>>
  /\ PrevFrame

\* onclose of the first run's channel.
PrevClose ==
  /\ prior.chan \in {"open", "closing", "error"}
  /\ prior' = [prior EXCEPT !.chan = "closed"]
  /\ isConnectedRef' = FALSE
  /\ UNCHANGED <<alertMsg, tracks>>
  /\ PrevFrame

\* ---------------------------------------------------------- navigation
\* What every step outside the live view leaves alone.
LiveVars == <<sessionVars, uiVars, textVars, audioVars, logVars, setupVars, runVars>>

\* The navigation bar is rendered on every page.  Its clicks are followed on
\* the way into the interview, and while an evaluation request is in flight.
NavbarClicks == (traffic = "auth" /\ ~isMounted) \/ (traffic = "report" /\ EvalPending)

\* The Home, About and Contact buttons of the navigation bar, while the live
\* view is not shown (Cleanup is the click that leaves the live view).
Navigate(page) ==
  /\ NavbarClicks
  /\ page # appState
  /\ appState' = page
  /\ UNCHANGED <<generationError, report, evals, evalResult, handed, teardown, prior, authVars>>
  /\ UNCHANGED LiveVars

\* handleStartInterviewClick: the setup form for a user, the login dialog else
\* (src/App.tsx knows no user and shows the setup form).
StartInterviewClick ==
  /\ NavbarClicks
  /\ IF variant = "basic" \/ currentUser # "none"
       THEN appState' = "SETUP" /\ UNCHANGED isLoginModalOpen
       ELSE isLoginModalOpen' = TRUE /\ UNCHANGED appState
  /\ UNCHANGED <<generationError, report, evals, evalResult, handed, teardown, prior, currentUser>>
  /\ UNCHANGED LiveVars

\* The login dialog: a login that succeeds, as a registered user or as guest
\* (loginAsGuest), then onLoginSuccess (handleLoginSuccess) and onClose.
LoginSuccess(user) ==
  /\ isLoginModalOpen
  /\ currentUser' = user
  /\ appState' = "SETUP"
  /\ isLoginModalOpen' = FALSE
  /\ UNCHANGED <<generationError, report, evals, evalResult, handed, teardown, prior>>
  /\ UNCHANGED LiveVars

\* The login dialog is closed without a login.
LoginClosed ==
  /\ isLoginModalOpen
  /\ isLoginModalOpen' = FALSE
  /\ UNCHANGED <<appState, generationError, report, evals, evalResult, handed, teardown, prior,
                 currentUser>>
  /\ UNCHANGED LiveVars

\* logout: the sign-out button of the navigation bar, shown on every page to
\* a logged-in user: signOut, then setCurrentUser(null).
Logout ==
  /\ traffic = "auth"
  /\ currentUser # "none"
  /\ currentUser' = "none"
  /\ UNCHANGED <<appState, generationError, report, evals, evalResult, handed, teardown, prior,
                 isLoginModalOpen>>
  /\ UNCHANGED LiveVars

\* handleSetupComplete: the setup form is submitted; the App renders the live
\* view, whose effect starts initializeSession.  One interview per run.
SetupComplete ==
  /\ appState = "SETUP"
  /\ pc = "unmounted"
  /\ appState' = "INTERVIEW"
  /\ isMounted' = TRUE
  /\ pc' = "start"
  /\ UNCHANGED <<variant, traffic, chan, promise, pendingThen, isConnectedRef, isConnecting,
                 connectionError, capture>>
  /\ UNCHANGED <<uiVars, textVars, audioVars, logVars, setupVars, runVars>>
  /\ UNCHANGED <<generationError, report, evals, evalResult, handed, teardown, prior, authVars>>

\* ------------------------------------------------------------ run code
\* `\n[SYSTEM: User ran ... code. Output: ${output.slice(0, 100)}...]\n`
SystemNote(output) ==
  IF output = "42"
    THEN "\n[SYSTEM: User ran code. Output: 42...]\n"
    ELSE "\n[SYSTEM: User ran code. Output: No output returned....]\n"

SystemNotes == {SystemNote(o) : o \in {"42", "No output returned."}}

IsNote(x) == x \in SystemNotes

\* `if (isConnectedRef.current && sessionPromiseRef.current)` before the result
\* is passed to the live session (the basic variant passes nothing)
MayForward == variant = "tools" /\ MayAcknowledge

\* handleRunCode up to `await ai.models.generateContent`
RunCodeStart ==
  /\ traffic = "code"
  /\ isMounted
  /\ ~isCompiling
  /\ env # "noKey"
  /\ Len(SelectSeq(transcriptRef, IsNote)) < MaxRuns
  /\ isCompiling' = TRUE
  /\ compilerOutput' = IF variant = "tools" THEN "Compiling..." ELSE "Compiling and executing..."
  /\ rightPanelTab' = IF variant = "tools" THEN "console" ELSE rightPanelTab
  /\ UNCHANGED <<isMicOn, isMicOnRef, isVideoOn, code, volume, activeTab, currentTask>>
  /\ UNCHANGED <<sessionVars, textVars, audioVars, logVars, setupVars, appVars>>

\* handleRunCode resumed: the request was rejected, or it resolved with an
\* output ("" stands for no text).  The tools variant passes the result to the
\* live session.
RunCodeDone(outcome) ==
  /\ isCompiling
  /\ isCompiling' = FALSE
  /\ IF outcome = "rejected"
       THEN /\ compilerOutput' = "Execution Error"
            /\ UNCHANGED <<transcriptRef, sent, chan, pendingThen>>
       ELSE /\ compilerOutput' = OrDefault(outcome, "No output returned.")
            /\ transcriptRef' = Append(transcriptRef,
                                       SystemNote(OrDefault(outcome, "No output returned.")))
            /\ IF MayForward
                 THEN LET r == Register(Then("codeResult", 0, FALSE), promise, isConnectedRef)
                      IN /\ sent' = r.st.sent
                         /\ chan' = r.st.chan
                         /\ pendingThen' = r.queue
                 ELSE UNCHANGED <<sent, chan, pendingThen>>
  /\ UNCHANGED <<variant, traffic, pc, isMounted, promise, isConnectedRef, isConnecting,
                 connectionError, capture>>
  /\ UNCHANGED <<uiVars, chatHistory, audioVars, calls, msgs, frames, lastTick, micToggled,
                 lastMsg>>
  /\ UNCHANGED <<setupVars, appVars>>

\* ------------------------------------------------------- specification
Next ==
  \/ InitStart
  \/ \E name \in {"NotAllowedError", "NotFoundError", "AbortError", "TypeError"} :
        MediaRejected(name)
  \/ MediaGranted
  \/ OnOpen
  \/ OnConnectFailed
  \/ OnError
  \/ OnClose
  \/ \E m \in Messages, throws \in BOOLEAN : OnMessage(m, throws)
  \/ \E i \in DOMAIN decodeQ : DecodeDone(i)
  \/ \E i \in DOMAIN decodeQ : DecodeFailed(i)
  \/ ClockTick
  \/ \E i \in DOMAIN segs : OnEnded(i)
  \/ \E level \in Levels : AudioTick(level)
  \/ VideoTick
  \/ ToggleMic
  \/ ToggleVideo
  \/ \E tab \in {"video", "code"} : SetActiveTab(tab)
  \/ \E tab \in {"task", "console", "video"} : SetRightPanelTab(tab)
  \/ \E text \in Codes : EditCode(text)
  \/ Cleanup
  \/ HandleEndCall
  \/ \E r \in EvalResults : EvalDone(r)
  \/ ReturnToSetup
  \/ \E page \in {"HOME", "ABOUT", "CONTACT"} : Navigate(page)
  \/ StartInterviewClick
  \/ \E user \in {"user", "guest"} : LoginSuccess(user)
  \/ LoginClosed
  \/ Logout
  \/ SetupComplete
  \/ RunCodeStart
  \/ \E outcome \in {"rejected", "", "42"} : RunCodeDone(outcome)

Spec == Init /\ [][Next]_vars

\* The component of src/unnamed/part_003 alone.
InitTools == Init /\ variant = "tools"
SpecTools == InitTools /\ [][Next]_vars

\* The component under a restart of its live-session effect.  The App sets
\* the profile only while the live view is not rendered, so that under Spec the
\* effect runs once for each mount; here the effect of the mounted component
\* runs a second time (a new profile object, or a replay of the effect by
\* React), at any moment of the first session, and the callbacks of the first
\* session arrive afterwards.
InitRestart == Start({"restart"})

NextRestart ==
  \/ InitStart
  \/ \E name \in {"NotAllowedError", "NotFoundError", "AbortError", "TypeError"} :
        MediaRejected(name)
  \/ MediaGranted
  \/ OnOpen
  \/ OnConnectFailed
  \/ OnError
  \/ OnClose
  \/ Cleanup
  \/ Restart
  \/ \E granted \in BOOLEAN : PrevMediaSettled(granted)
  \/ PrevOpen
  \/ PrevError
  \/ PrevClose

SpecRestart == InitRestart /\ [][NextRestart]_vars

\* =============================================================== claims
SegEnd(i) == segs[i].start + segs[i].duration

\* C1: of two segments scheduled one after the other with no interruption-signal
\* between them, the later never starts before the earlier ends (no overlap),
\* and when it is scheduled no later than the earlier one's scheduled end it
\* starts exactly at that end (no gap): start[i+1] = start[i] + duration[i].
C1_ContiguousStarts ==
  \A i \in 1..(Len(segs) - 1) :
    segs[i + 1].epoch = segs[i].epoch =>
      /\ segs[i + 1].start >= SegEnd(i)
      /\ segs[i + 1].clockAt <= SegEnd(i) => segs[i + 1].start = SegEnd(i)

\* A second segment arrived while the first was still queued or playing and was
\* placed right behind it, later than its own arrival.
C1_Witness ==
  /\ Len(segs) >= 2
  /\ segs[2].epoch = segs[1].epoch
  /\ segs[2].clockAt > segs[1].clockAt
  /\ segs[2].clockAt < SegEnd(1)
  /\ segs[2].start = SegEnd(1)

\* C2: once an interruption-signal has been handled, every segment scheduled
\* before it is stopped (or had already ended) and none of them is left in the
\* pending set; right after the signal the pending set is empty.
C2_InterruptedSilenced ==
  \A i \in DOMAIN segs :
    segs[i].epoch < Len(interrupts) =>
      /\ segs[i].state \in {"stopped", "ended"}
      /\ i \notin sourcesRef

\* A segment that was scheduled at an earlier instant and had not played to its
\* end was stopped by the interruption-signal.
C2_Witness ==
  \E i \in DOMAIN segs :
    /\ segs[i].epoch < Len(interrupts)
    /\ segs[i].state = "stopped"
    /\ segs[i].clockAt < interrupts[segs[i].epoch + 1]
    /\ interrupts[segs[i].epoch + 1] < SegEnd(i)

\* C3: handling an interruption-signal leaves nextStartTimeRef at the output
\* clock time of that instant (it stays there until the next segment is
\* scheduled), and every segment scheduled after the signal starts at or after
\* that instant.
C3_ResetToClock ==
  /\ \A i \in DOMAIN segs :
       segs[i].epoch >= 1 => segs[i].start >= interrupts[segs[i].epoch]
  /\ (/\ Len(interrupts) > 0
      /\ \A i \in DOMAIN segs : segs[i].epoch < Len(interrupts))
       => nextStartTimeRef = interrupts[Len(interrupts)]

\* An interruption at a non-zero instant, and a segment scheduled after it.
C3_Witness ==
  /\ Len(interrupts) > 0
  /\ interrupts[1] > 0
  /\ \E i \in DOMAIN segs : segs[i].epoch = 1 /\ segs[i].start >= interrupts[1]

RECURSIVE Flatten(_)
Flatten(history) ==
  IF history = << >> THEN << >> ELSE Head(history).text \o Flatten(Tail(history))

IsDelta(x) == x # InterruptionMarker /\ ~IsNote(x)

\* C4: the message list never holds two adjacent entries of the same role, and
\* the deltas are appended, none lost or reordered: the texts of the entries,
\* in order, are the deltas accumulated in the transcript string.
C4_Coalesced ==
  /\ \A i \in 1..(Len(chatHistory) - 1) : chatHistory[i].role # chatHistory[i + 1].role
  /\ Flatten(chatHistory) = SelectSeq(transcriptRef, IsDelta)

\* "Hi" then " there" from the interviewer gave exactly one entry "Hi there".
C4_Witness == chatHistory = <<[role |-> "ai", text |-> <<"Hi", " there">>]>>

\* C5: handling a message whose transcript deltas are empty strings changes
\* neither the message list (entry count and every text) nor the transcript
\* string, and no entry ever holds an empty text.
C5_EmptyDeltaNoOp ==
  /\ [](\A i \in DOMAIN chatHistory : chatHistory[i].text # << >>)
  /\ [][(/\ msgs' = msgs + 1
         /\ lastMsg'.outputText = << >> /\ lastMsg'.inputText = << >>
         /\ lastMsg'.audio = 0 /\ ~lastMsg'.interrupted)
          => (chatHistory' = chatHistory /\ transcriptRef' = transcriptRef)]_vars

\* An empty delta was handled by the mounted component after entries existed.
C5_Witness ==
  /\ isMounted
  /\ traffic = "text"
  /\ msgs >= 2
  /\ lastMsg = NoMessage
  /\ Len(chatHistory) >= 1

\* C6: a frame or tool-response is handed to the session only while the channel
\* is open, and only when the channel was already open when the send was
\* requested: nothing requested in another state is kept and delivered later.
C6_SendOnlyWhenOpen ==
  \A i \in DOMAIN sent : sent[i].chanAtSend = "open" /\ sent[i].chanAtReg = "open"

C8_UnmutedTickSends ==
  (lastTick.kind = "audio" /\ lastTick.mic /\ lastTick.open) =>
    /\ lastTick.emitted = 1
    /\ sent # << >>

\* The first audio tick after the microphone was toggled back on sent a frame.
C8_Witness ==
  /\ lastTick.kind = "audio"
  /\ lastTick.afterToggle /\ lastTick.mic
  /\ lastTick.open
  /\ lastTick.emitted = 1
  /\ sent[Len(sent)].kind = "audio"

Responses(id) == {j \in DOMAIN sent : sent[j].kind = "toolResponse" /\ sent[j].id = id}

\* C9: every assign-task function call delivered while the channel is open is
\* answered by exactly one tool-response with its id, and no tool-response
\* carries any other id.
C9_AcknowledgedOnce ==
  /\ \A c \in DOMAIN calls :
       (calls[c].name = "assignCodingTask" /\ calls[c].open) =>
         Cardinality(Responses(calls[c].id)) = 1
  /\ \A j \in DOMAIN sent :
       sent[j].kind = "toolResponse" => sent[j].id \in {calls[c].id : c \in DOMAIN calls}

AssignCalls == {c \in DOMAIN calls : calls[c].name = "assignCodingTask" /\ calls[c].handled}

\* C10: the assigned task is unset until an assign-task call arrives, and
\* afterwards holds exactly the title and description of the most recent one.
C10_TaskIsLatestCall ==
  IF AssignCalls = {}
    THEN currentTask = NoTask
    ELSE LET c == calls[CHOOSE x \in AssignCalls : \A y \in AssignCalls : y <= x]
         IN currentTask = [title |-> c.title, description |-> c.description]

IsMarker(x) == x = InterruptionMarker

\* C11 (as stated): the transcript string handed over at the session end is the
\* in-order concatenation of the texts of the transcript entries, with nothing
\* added and nothing missing.
C11_TranscriptIsEntries ==
  \A i \in DOMAIN handed : handed[i].text = Flatten(handed[i].entries)

\* C11 (amended): the string handed over holds the texts of the entries in
\* order, none missing, and besides them only one interruption marker for
\* each interruption-signal handled and the system notes of finished code
\* runs; when that string would be empty the fixed text "No transcript
\* available." is handed over instead.
C11_TranscriptIsAnnotatedEntries ==
  \A i \in DOMAIN handed :
    LET h == handed[i] IN
    IF h.text = <<NoTranscript>>
      THEN h.entries = << >> /\ h.interruptions = 0
      ELSE /\ h.text # << >>
           /\ SelectSeq(h.text, IsDelta) = Flatten(h.entries)
           /\ Len(SelectSeq(h.text, IsMarker)) = h.interruptions

\* A transcript with entries of both roles and an interruption marker was
\* handed over, and the live view was torn down.
C11_Witness ==
  /\ ~isMounted
  /\ \E i \in DOMAIN handed :
       /\ Len(handed[i].entries) = 2
       /\ handed[i].interruptions = 1
       /\ Len(handed[i].text) = 3

\* C12: in one interview session the transcript is passed to the evaluation
\* (generateReport) exactly once and at most one evaluation request is started,
\* however often the end-interview button is clicked: the first click leaves
\* the interview, so that no second click can follow.
C12_EvaluatedOnce ==
  /\ Len(handed) <= 1
  /\ evals <= 1
  /\ handed # << >> => appState # "INTERVIEW"

\* C13: after the session has ended (the teardown has started) no audio frame,
\* image frame, tool-response or code-result is handed to the session, also not
\* by a continuation that was queued on the session promise before the end.
C13_NoSendAfterEnd ==
  \A i \in DOMAIN sent : sent[i].mountedAtSend

\* C14: after the session has ended no audio segment is scheduled and
\* nextStartTimeRef is not written, also when an onmessage handler was suspended
\* on the audio decode at the moment of the end.
C14_NoPlaybackAfterEnd ==
  /\ [](\A i \in DOMAIN segs : segs[i].mounted)
  /\ [][~isMounted => nextStartTimeRef' = nextStartTimeRef]_vars

\* C15: once isConnectedRef has been cleared by a close, an error or the
\* teardown, it is never set again: it is set only while the channel connects
\* and the session has not ended.
C15_NeverReopened ==
  [][(~isConnectedRef /\ isConnectedRef') => (chan = "connecting" /\ isMounted)]_vars

\* Position of a step in the teardown log: 0 when it did not run.
Pos(step) ==
  IF \E i \in DOMAIN teardown : teardown[i] = step
    THEN CHOOSE i \in DOMAIN teardown : teardown[i] = step
    ELSE 0

Before(a, b) == (Pos(a) > 0 /\ Pos(b) > 0) => Pos(a) < Pos(b)

\* C16: when the session is ended with the end-interview button, the steps run
\* in this order: the channel is marked closed, the capture producers are
\* stopped, the device handles are released, the audio output sink is closed,
\* and only then the stream is closed and the transcript handed to the report
\* generation.
C16_TeardownOrder ==
  Pos("handover") > 0 =>
    /\ Before("markClosed", "stopTimer")
    /\ Before("stopTimer", "releaseDevices")
    /\ Before("stopProcessor", "releaseDevices")
    /\ Before("releaseDevices", "closeSink")
    /\ Before("closeSink", "closeStream")
    /\ Before("closeSink", "handover")

\* The error text the user is shown: the banner, or the alert of the variant
\* that has no banner.
ErrorText == IF variant = "tools" THEN connectionError ELSE alertMsg

SetupCauses == {"INSECURE_CONTEXT", "PERMISSION_DENIED", "NO_DEVICES"}

\* The device failure of this run, "" when there is none.
Cause ==
  IF env = "insecure" /\ pc \notin {"start", "awaitMedia"} THEN "INSECURE_CONTEXT"
  ELSE IF mediaErr \in {"NotAllowedError", "PermissionDeniedError"} THEN "PERMISSION_DENIED"
  ELSE IF mediaErr = "NotFoundError" THEN "NO_DEVICES"
  ELSE ""

\* C17: an insecure context, a denied permission and a missing device each end
\* the setup before any connect is attempted (no channel, no capture producer)
\* and show a message of their own, different from the message of the other
\* two; when the setup gets past the media request, capture is started.
C17_DistinctSetupErrors ==
  /\ Cause # "" =>
       /\ pc = "failed"
       /\ chan = "none" /\ promise = "none" /\ ~capture /\ ~isConnectedRef
       /\ ~isConnecting =>
            /\ ErrorText = Shown(Cause)
            /\ \A other \in SetupCauses \ {Cause} : Shown(other) # ErrorText
  /\ (pc = "done" /\ isMounted) => capture

\* An evaluation failed: the API key is missing, the response was empty or it
\* was not JSON.
EvalFailed ==
  \/ handed # << >> /\ env = "noKey"
  \/ evalResult.kind \in {"empty", "garbage"}

\* C18: after a failed evaluation the app is in the error state of the
\* analysing screen (error text with the return-to-setup button, no report), or
\* at the setup step that this button leads to; it is never in the report
\* state and never still in the interview.
C18_EvaluationErrorState ==
  EvalFailed =>
    /\ generationError # ""
    /\ appState \in {"ANALYZING", "SETUP"}

\* C19: once the error banner is set, no later event clears it and the session
\* is not live again: with the banner up the channel is neither connecting nor
\* open and isConnectedRef is false.
C19_ErrorIsTerminal ==
  /\ [](connectionError # "" =>
          (~isConnectedRef /\ chan \notin {"connecting", "open", "closing"}))
  /\ [][connectionError # "" => connectionError' # ""]_vars

\* A channel error raised the banner on a live session and the close of the
\* socket arrived afterwards, with the component still mounted.
C19_Witness ==
  /\ isMounted
  /\ connectionError = "Connection Error"
  /\ chan = "closed"
  /\ promise = "resolved"

\* C20: whenever the channel has dropped (closed by the peer, or in error)
\* while the component is mounted, the error banner is shown: the session is
\* not presented as live over a dropped channel.
C20_DropShowsBanner ==
  (isMounted /\ chan \in {"closed", "error"}) => connectionError # ""

\* C23: nextStartTimeRef starts at 0; every segment is scheduled at
\* max(output clock, nextStartTimeRef) and nextStartTimeRef is then its start
\* plus its duration; so no segment is scheduled to start before the output
\* clock time of the instant at which it is scheduled.
C23_NotBeforeClock ==
  /\ (segs = << >> /\ interrupts = << >>) => nextStartTimeRef = 0
  /\ \A i \in DOMAIN segs :
       /\ segs[i].start = Max(segs[i].clockAt, segs[i].nextAt)
       /\ segs[i].start >= segs[i].clockAt
  /\ (segs # << >> /\ segs[Len(segs)].epoch = Len(interrupts)) =>
       nextStartTimeRef = SegEnd(Len(segs))

\* A segment arrived after the queue had run dry (the clock had passed
\* nextStartTimeRef) and was started at the clock time; an earlier one, still
\* queued behind its predecessor, was started later than its arrival.
C23_Witness ==
  /\ \E i \in DOMAIN segs :
       segs[i].clockAt > segs[i].nextAt /\ segs[i].nextAt > 0 /\ segs[i].start = segs[i].clockAt
  /\ nextStartTimeRef = SegEnd(Len(segs))

\* C28: an audio capture tick that runs while the microphone is muted is still
\* analysed: it leaves the volume meter at the level of its buffer, and it
\* sends no frame.
C28_MutedTickMeters ==
  (lastTick.kind = "audio" /\ ~lastTick.mic /\ lastTick.mounted) =>
    /\ volume = lastTick.level
    /\ lastTick.emitted = 0

\* C24: inbound messages are handled one at a time: no message is handled
\* while the handler of an earlier one is still suspended on its audio decode,
\* with its scheduling still to come; so handlers resume in arrival order and
\* no interruption-signal is handled ahead of audio that arrived before it.
C24_OneAtATime ==
  [][/\ (msgs' # msgs /\ isMounted) => decodeQ = << >>
     /\ Len(decodeQ') < Len(decodeQ) => decodeQ' = Tail(decodeQ)]_vars

\* The assign-task calls the handler acted on: calls[0] of a message handled by
\* the mounted component.
TaskCalls ==
  {c \in DOMAIN calls :
     calls[c].name = "assignCodingTask" /\ calls[c].handled /\ calls[c].first}

\* C29: the acknowledgement of a tool call is attempted at most once: no call
\* has more than one tool-response; a call that was handled while the session
\* was not connected, or whose send threw, has none, then and ever after (no
\* retry); and the task it assigned is set and displayed all the same.
C29_AckFireAndForget ==
  /\ \A c \in DOMAIN calls : Cardinality(Responses(calls[c].id)) <= 1
  /\ \A c \in TaskCalls :
       /\ (~calls[c].connected \/ calls[c].throws) => Responses(calls[c].id) = {}
       /\ currentTask # NoTask
       /\ activeTab = "code"
       /\ traffic = "tool" => rightPanelTab = "task"

\* The send of an acknowledgement threw; the task of that call is displayed,
\* and a later call was handled and acknowledged without a retry of the first.
C29_Witness ==
  \E c, d \in TaskCalls :
    /\ c < d
    /\ calls[c].throws
    /\ Responses(calls[c].id) = {}
    /\ Cardinality(Responses(calls[d].id)) = 1
    /\ currentTask # NoTask

IsFrame(x) == x.kind \in {"audio", "image"}

\* C30: of two frames of the same producer (audio, image) the one produced
\* earlier is handed to the session earlier, also when both waited for the
\* connect; frames of the two producers interleave.
C30_ProducerFifo ==
  \A i, j \in DOMAIN sent :
    (i < j /\ IsFrame(sent[i]) /\ sent[i].kind = sent[j].kind) => sent[i].id < sent[j].id

\* Two audio frames produced while the connect was in flight were sent in
\* production order once it resolved, with an image frame between them.
C30_Witness ==
  /\ Len(sent) = 3
  /\ sent[1].kind = "audio" /\ sent[2].kind = "image" /\ sent[3].kind = "audio"
  /\ \A i \in 1..3 : sent[i].chanAtReg = "connecting" /\ sent[i].chanAtSend = "open"
  /\ sent[1].id < sent[3].id

\* The session has ended and nothing of its setup is still in flight: the media
\* request and the connect attempt have settled, a requested close has completed.
Settled ==
  /\ ~isMounted
  /\ pc \in {"done", "failed"}
  /\ promise # "pending"
  /\ chan # "closing"

\* C25: once the session has ended and its asynchronous setup has settled,
\* everything is released: the media tracks are stopped, the audio contexts
\* are closed, the processor and the frame timer are stopped and the channel
\* is closed; also when the end came while the device acquisition or the
\* connect attempt was in flight.
C25_EverythingReleased ==
  Settled =>
    /\ tracks # "live"
    /\ audioContextRef # "running"
    /\ ~capture
    /\ chan \notin {"connecting", "open"}

\* A step of the frame timer: it found the channel open and the component
\* mounted.
ImageTick ==
  /\ lastTick'.kind = "image"
  /\ lastTick' # lastTick \/ frames' # frames
  /\ chan = "open" /\ isMounted

\* The step handed exactly one frame to the session, an image of this content.
SendsImage(content) ==
  /\ Len(sent') = Len(sent) + 1
  /\ sent'[Len(sent')].kind = "image"
  /\ sent'[Len(sent')].image = content

\* C26: an image tick that runs in code view on the open channel sends one
\* image frame; the frame shows the editor text as it is at the tick, and the
\* camera inset exactly when the camera is on; whichever side panel is shown.
C26_CodeViewFrame ==
  [][(ImageTick /\ activeTab = "code") =>
       SendsImage([view |-> "code", rev |-> code.rev, lines |-> code.lines,
                   inset |-> isVideoOn])]_vars

\* C27: an image tick that runs on the open channel sends exactly one image
\* frame, with the camera on or off; in camera view with the camera off the
\* frame is the constant placeholder.
C27_CameraOffKeepsCadence ==
  [][ImageTick =>
       /\ Len(sent') = Len(sent) + 1
       /\ sent'[Len(sent')].kind = "image"
       /\ (activeTab = "video" /\ ~isVideoOn) => sent'[Len(sent')].image.view = "placeholder"]_vars

\* C21: whatever the sequence of navigation, login, guest login, logout and
\* form submission, the app enters the interview state only while the current
\* user is non-null.
C21_InterviewNeedsUser ==
  [][(appState # "INTERVIEW" /\ appState' = "INTERVIEW") => currentUser' # "none"]_vars

\* A callback of the previous run's channel ran.
PrevCallback == prior.pc # "none" /\ prior'.chan # prior.chan

\* C22: after a restart of the live-session effect at most one channel is open
\* at any time, and no open, close or error callback of the previous channel
\* changes the connected flag or the UI state that the new session uses.
C22_SessionsIsolated ==
  /\ [](~(chan = "open" /\ prior.chan = "open"))
  /\ [][PrevCallback =>
          /\ isConnectedRef' = isConnectedRef
          /\ UNCHANGED <<isConnecting, connectionError, alertMsg>>]_vars

\* A handler that was suspended on the audio decode ended without scheduling
\* a segment: the decode of its chunk failed.
DecodeFails == Len(decodeQ') < Len(decodeQ) /\ Len(segs') = Len(segs)

\* C31: a failure to decode one inbound audio chunk is contained: the chunk is
\* skipped with nextStartTimeRef and the pending set as they were, the channel
\* and the connected flag are untouched, and the rest of the same message is
\* still handled: an interruption-signal it carries stops the pending sources,
\* resets nextStartTimeRef and is marked in the transcript.
C31_DecodeFailureContained ==
  [][DecodeFails =>
       /\ chan' = chan /\ isConnectedRef' = isConnectedRef /\ isMounted' = isMounted
       /\ \E i \in DOMAIN decodeQ :
            LET pb == AfterDecode(Playback, 0, decodeQ[i].interrupted) IN
            /\ decodeQ' = SubSeq(decodeQ, 1, i - 1) \o SubSeq(decodeQ, i + 1, Len(decodeQ))
            /\ nextStartTimeRef' = pb.next
            /\ sourcesRef' = pb.sources
            /\ segs' = pb.segs
            /\ interrupts' = pb.interrupts
            /\ transcriptRef' = pb.transcript]_vars

IsPrefix(a, b) == Len(a) <= Len(b) /\ SubSeq(b, 1, Len(a)) = a

\* C32: the transcript entry sequence is append-only in conversation order:
\* every step leaves all entries but the last as they are, changes the last
\* entry only by extending its text, and adds entries only at the end; what a
\* step adds is the deltas of the message it handled, in their order.
C32_AppendOnly ==
  [][/\ Len(chatHistory') >= Len(chatHistory)
     /\ \A i \in 1..(Len(chatHistory) - 1) : chatHistory'[i] = chatHistory[i]
     /\ Len(chatHistory) > 0 =>
          /\ chatHistory'[Len(chatHistory)].role = chatHistory[Len(chatHistory)].role
          /\ IsPrefix(chatHistory[Len(chatHistory)].text, chatHistory'[Len(chatHistory)].text)
     /\ chatHistory' # chatHistory =>
          Flatten(chatHistory') =
            Flatten(chatHistory) \o lastMsg'.outputText \o lastMsg'.inputText]_vars

\* A message with a delta of each role opened two entries, and a later delta
\* of the candidate extended the last entry and left the first alone.
C32_Witness ==
  /\ msgs = 2
  /\ chatHistory = <<[role |-> "ai", text |-> <<"Hi">>],
                     [role |-> "user", text |-> <<" there", "Hi">>]>>

\* C33: for a response made of one valid JSON object with extraneous text
\* around it (code fences, prose, prose that itself contains braces), the
\* report that is parsed and stored equals that object.
C33_ParsesEmbeddedObject ==
  evalResult.kind = "object" => report = evalResult.obj

\* The evaluation request came back and gave no report.
EvalErrored == evalResult # NoResult /\ report = << >>

\* The transcript string can still be reached: through transcriptRef of the
\* mounted live view, or as the argument of a generateReport call that has not
\* returned.  The App component keeps appState, profile, report,
\* isLoginModalOpen and generationError, and no transcript.
TranscriptHeld == isMounted \/ EvalPending

\* C34: after an evaluation-call error the transcript of the finished
\* interview is still held by the application, and no evaluation call is
\* issued other than by the click that ends an interview.
C34_TranscriptKeptNoRetry ==
  /\ [](EvalErrored => TranscriptHeld)
  /\ [][evals' # evals => (evals' = evals + 1 /\ Len(handed') = Len(handed) + 1)]_vars

\* C35: the app moves to the report state only from the analyzing state: a
\* report that arrives after the user has left the analyzing screen does not
\* replace the screen shown then.
C35_ReportOnlyFromAnalyzing ==
  [][(appState' = "REPORT" /\ appState # "REPORT") => appState = "ANALYZING"]_vars

\* C36: a tool call whose name is not the assign-task tool changes neither the
\* assigned task nor the active tab nor the side panel, and no tool-response
\* is sent for it, then or later.
C36_OtherToolNoEffect ==
  /\ [](\A c \in DOMAIN calls :
          calls[c].name # "assignCodingTask" => Responses(calls[c].id) = {})
  /\ [][(/\ msgs' = msgs + 1
         /\ Len(lastMsg'.functionCalls) > 0
         /\ lastMsg'.functionCalls[1].name # "assignCodingTask")
          => UNCHANGED <<currentTask, activeTab, rightPanelTab, sent, pendingThen>>]_vars

\* After an assign-task call was handled and acknowledged, a call of another
\* tool was handled on the open channel: the task is that of the first call
\* and the one tool-response is still the only call on the session.
C36_Witness ==
  /\ isMounted /\ isConnectedRef
  /\ Len(calls) = 2
  /\ calls[1].name = "assignCodingTask" /\ calls[1].handled
  /\ calls[2].name = "otherTool" /\ calls[2].handled /\ calls[2].open /\ calls[2].first
  /\ calls[2].title = "Reverse a List"
  /\ currentTask = TaskOf(calls[1])
  /\ Len(sent) = 1 /\ sent[1].kind = "toolResponse" /\ sent[1].id = calls[1].id

\* C37: after the session has ended, an inbound message that starts being
\* handled changes nothing: the transcript string, the message list, the
\* assigned task and the view mode are as before, and nothing is sent.
C37_NoHandlingAfterEnd ==
  [][(msgs' = msgs + 1 /\ ~isMounted) =>
       UNCHANGED <<transcriptRef, chatHistory, currentTask, activeTab, rightPanelTab, sent,
                   pendingThen, decodeQ, segs, sourcesRef, nextStartTimeRef>>]_vars

\* A first delta was handled, the session was ended, and a second delta that
\* arrived on the closing channel was left out of the list and the string.
C37_Witness ==
  /\ ~isMounted
  /\ msgs = 2
  /\ lastMsg.outputText = <<" there">>
  /\ chatHistory = <<[role |-> "ai", text |-> <<"Hi">>]>>
  /\ transcriptRef = <<"Hi">>

\* C38: the transcript handed to the evaluation is never the empty string:
\* when nothing has been accumulated it is the placeholder "No transcript
\* available.", otherwise it is the accumulated string, unchanged.
C38_NeverEmptyTranscript ==
  \A i \in DOMAIN handed :
    /\ handed[i].text # << >>
    /\ handed[i].text = IF handed[i].accumulated = << >>
                          THEN <<NoTranscript>> ELSE handed[i].accumulated

\* The interview was ended on the open channel before anything was said: the
\* placeholder was handed over and an evaluation request was started with it.
C38_Witness ==
  /\ ~isMounted
  /\ promise = "resolved"
  /\ evals = 1
  /\ Len(handed) = 1
  /\ handed[1].accumulated = << >>
  /\ handed[1].text = <<NoTranscript>>

IsCodeResult(x) == x.kind = "codeResult"

\* The step in which a code run finishes.
RunFinishes == isCompiling /\ ~isCompiling'

\* C39: the result of a code run is forwarded to the live session at most once
\* for each run, and only when the run succeeded and the channel was open when
\* it finished; a failed run adds no note to the transcript and sends nothing.
C39_CodeResultOnce ==
  /\ [](\A i \in DOMAIN sent :
          IsCodeResult(sent[i]) =>
            sent[i].chanAtReg = "open" /\ sent[i].chanAtSend = "open")
  /\ [](Len(SelectSeq(sent, IsCodeResult)) <= Len(SelectSeq(transcriptRef, IsNote)))
  /\ [][RunFinishes =>
          /\ Len(sent') <= Len(sent) + 1
          /\ pendingThen' = pendingThen
          /\ sent' # sent =>
               (chan = "open" /\ IsCodeResult(sent'[Len(sent')])
                  /\ compilerOutput' # "Execution Error")
          /\ compilerOutput' = "Execution Error" =>
               UNCHANGED <<transcriptRef, sent, pendingThen>>]_vars
  /\ [][~RunFinishes => SelectSeq(sent', IsCodeResult) = SelectSeq(sent, IsCodeResult)]_vars

\* The end of a source that an interruption-signal had stopped is notified.
LateEnd == \E i \in DOMAIN segs : segs[i].state = "stopped" /\ segs'[i].state = "ended"

\* C40: the set of tracked playback sources holds exactly the segments that
\* were scheduled and have neither ended nor been interrupted; the end
\* notification of a segment that an interruption had already cleared changes
\* neither the set nor nextStartTimeRef.
C40_PendingSetExact ==
  /\ [](sourcesRef = {i \in DOMAIN segs : segs[i].state = "scheduled"})
  /\ [][LateEnd => UNCHANGED <<sourcesRef, nextStartTimeRef>>]_vars

\* A segment was stopped by an interruption-signal before its end, a new
\* segment was scheduled, and the end of the stopped one was notified while
\* the new one was pending: the set holds the new segment alone.
C40_Witness ==
  /\ Len(segs) = 2
  /\ Len(interrupts) = 1
  /\ segs[1].epoch = 0 /\ segs[1].state = "ended" /\ interrupts[1] < SegEnd(1)
  /\ segs[2].epoch = 1 /\ segs[2].state = "scheduled"
  /\ sourcesRef = {2}

====
